---- MODULE Spec2Model ----
(***************************************************************************)
(* Model of the synthetic biosignal generator of synheart-emotion          *)
(* (tools/synthetic-data-generator/syndata/generator.py).                  *)
(*                                                                         *)
(* Floats are modelled as exact rationals <<n, d>> (d > 0, lowest terms),  *)
(* datetimes as integer microseconds, Optional[x] as <<>> (None) or <<x>>. *)
(* The process-wide random module is an integer state: random.seed sets    *)
(* it, every draw reads it and advances it.                                *)
(***************************************************************************)
EXTENDS Integers, Sequences, FiniteSets, TLC

(***************************************************************************)
(* Bounds of the model.                                                    *)
(***************************************************************************)
\* number of states of the modelled random stream
RngMod == 8
\* standard normal deviates are drawn from -ZMax .. ZMax
ZMax == 3
\* random() is drawn from {0/UDen, ..., UDen/UDen}
UDen == 4
\* integer seeds offered to the constructors: 0 .. MaxSeed
MaxSeed == 0
\* durations offered to the convenience functions: 0 and MaxDur
MaxDur == 2
\* counts offered to direct generate_rr_intervals calls: -1 .. MaxCount
MaxCount == 3
\* transition lengths offered to generate_transition: -1 .. MaxTrans
MaxTrans == 4
\* the wall clock takes the values 0 .. MaxClock (seconds)
MaxClock == 1

\* Optional[x]
None == <<>>
Some(x) == <<x>>

(***************************************************************************)
(* Rational arithmetic (the floats of the program).                        *)
(***************************************************************************)
RECURSIVE Gcd(_, _)
Gcd(a, b) == IF b = 0 THEN a ELSE Gcd(b, a % b)

Abs(n) == IF n < 0 THEN -n ELSE n

RNorm(n, d) ==
    IF d = 1 THEN <<n, 1>>
    ELSE LET s == IF d < 0 THEN -1 ELSE 1
             g == Gcd(Abs(n), Abs(d))
         IN  <<(s * n) \div g, (s * d) \div g>>

R(n) == <<n, 1>>
RAdd(a, b) == RNorm(a[1] * b[2] + b[1] * a[2], a[2] * b[2])
RSub(a, b) == RNorm(a[1] * b[2] - b[1] * a[2], a[2] * b[2])
RMul(a, b) == RNorm(a[1] * b[1], a[2] * b[2])
RDiv(a, b) == RNorm(a[1] * b[2], a[2] * b[1])
RLt(a, b) == a[1] * b[2] < b[1] * a[2]
RLe(a, b) == a[1] * b[2] <= b[1] * a[2]
RAbs(a) == <<Abs(a[1]), a[2]>>
\* Python min(a, b) and max(a, b): the first argument wins ties
RMin(a, b) == IF RLt(b, a) THEN b ELSE a
RMax(a, b) == IF RLt(a, b) THEN b ELSE a
\* int(x): truncation toward zero
IntTrunc(a) == IF a[1] >= 0 THEN a[1] \div a[2] ELSE -((-a[1]) \div a[2])
\* round(x): nearest integer, ties to even
RoundHalfEven(a) ==
    LET f == a[1] \div a[2]
        r == a[1] - f * a[2]
    IN  IF 2 * r < a[2] THEN f
        ELSE IF 2 * r > a[2] THEN f + 1
        ELSE IF f % 2 = 0 THEN f ELSE f + 1

(***************************************************************************)
(* datetime / timedelta: microsecond resolution.                           *)
(***************************************************************************)
USEC == 1000000
\* timedelta(seconds = x): x seconds rounded to whole microseconds
TimedeltaSeconds(x) == RoundHalfEven(RMul(x, R(USEC)))

(***************************************************************************)
(* The random module: one process-wide state.                              *)
(***************************************************************************)
RngStates == 0 .. (RngMod - 1)
\* the state after any single draw
RngNext(st) == (st + 5) % RngMod
\* random.seed(seed)
RngSeed(seed) == (seed * 7 + 3) % RngMod
\* random.gauss(mu, sigma) = mu + z * sigma, z the deviate of this state
GaussZ(st) == ((st * 3 + st \div 5) % (2 * ZMax + 1)) - ZMax
\* a gauss whose spread never vanishes
gauss_UnitSpread(st, mu, sigma) ==
    [rng |-> RngNext(st),
     val |-> RAdd(mu, RMul(R(GaussZ(st)), RAdd(sigma, R(1))))]

\* random.gauss(mu, sigma): mu + z * sigma
gauss(st, mu, sigma) ==
    [rng |-> RngNext(st), val |-> RAdd(mu, RMul(R(GaussZ(st)), sigma))]
\* random.choice(seq)
choice(st, seq) ==
    [rng |-> RngNext(st), val |-> seq[1 + ((st \div 3) % Len(seq))]]
\* random.uniform(a, b) = a + (b - a) * random()
uniform(st, a, b) ==
    [rng |-> RngNext(st),
     val |-> RAdd(a, RMul(RSub(b, a), RNorm(st % (UDen + 1), UDen)))]
\* a randint that counts from zero instead of from a
randint_FromZero(st, a, b) ==
    [rng |-> RngNext(st), val |-> st % (b - a + 1)]

\* random.randint(a, b)
randint(st, a, b) ==
    [rng |-> RngNext(st), val |-> a + (st % (b - a + 1))]

(***************************************************************************)
(* Sample synthesizer.                                                     *)
(***************************************************************************)
HR_MIN == 30
HR_MAX == 200
RR_MIN == 300
RR_MAX == 2000
max_jump == 100

\* generate_hr_sample without the upper clamp
generate_hr_sample_NoUpperClamp(st, mean, std) ==
    LET Clamp(hr) == [rng |-> hr.rng, val |-> RMax(R(HR_MIN), hr.val)]
    IN  Clamp(gauss(st, mean, std))

\* BiosignalGenerator.generate_hr_sample
generate_hr_sample(st, mean, std) ==
    LET Clamp(hr) ==
            [rng |-> hr.rng, val |-> RMax(R(HR_MIN), RMin(R(HR_MAX), hr.val))]
    IN  Clamp(gauss(st, mean, std))

\* the loop body of generate_rr_intervals without the clamp to the valid
\* range
RRStep_NoClamp(st, mean, std, prev_interval) ==
    LET Result(st2, drawn, far, target) ==
            [rng |-> st2, drawn |-> drawn, far |-> far, target |-> target,
             interval |-> target]
        Jump(drawn, c, u) ==
            Result(u.rng, drawn, TRUE,
                   RAdd(prev_interval, RMul(R(c.val), u.val)))
        Limit(drawn, c) == Jump(drawn, c, uniform(c.rng, R(0), R(max_jump)))
        Check(g) ==
            IF RLt(R(max_jump), RAbs(RSub(g.val, prev_interval)))
            THEN Limit(g.val, choice(g.rng, <<-1, 1>>))
            ELSE Result(g.rng, g.val, FALSE, g.val)
    IN  Check(gauss(st, mean, std))

\* the loop body of generate_rr_intervals with the replacement taken
\* around the mean instead of around the previous interval
RRStep_JumpFromMean(st, mean, std, prev_interval) ==
    LET Result(st2, drawn, far, target) ==
            [rng |-> st2, drawn |-> drawn, far |-> far, target |-> target,
             interval |-> RMax(R(RR_MIN), RMin(R(RR_MAX), target))]
        Jump(drawn, c, u) ==
            Result(u.rng, drawn, TRUE, RAdd(mean, RMul(R(c.val), u.val)))
        Limit(drawn, c) == Jump(drawn, c, uniform(c.rng, R(0), R(max_jump)))
        Check(g) ==
            IF RLt(R(max_jump), RAbs(RSub(g.val, prev_interval)))
            THEN Limit(g.val, choice(g.rng, <<-1, 1>>))
            ELSE Result(g.rng, g.val, FALSE, g.val)
    IN  Check(gauss(st, mean, std))

\* one iteration of the loop of generate_rr_intervals
RRStep(st, mean, std, prev_interval) ==
    LET Result(st2, drawn, far, target) ==
            [rng |-> st2, drawn |-> drawn, far |-> far, target |-> target,
             interval |-> RMax(R(RR_MIN), RMin(R(RR_MAX), target))]
        Jump(drawn, c, u) ==
            Result(u.rng, drawn, TRUE,
                   RAdd(prev_interval, RMul(R(c.val), u.val)))
        Limit(drawn, c) == Jump(drawn, c, uniform(c.rng, R(0), R(max_jump)))
        Check(g) ==
            IF RLt(R(max_jump), RAbs(RSub(g.val, prev_interval)))
            THEN Limit(g.val, choice(g.rng, <<-1, 1>>))
            ELSE Result(g.rng, g.val, FALSE, g.val)
    IN  Check(gauss(st, mean, std))

\* the loop of generate_rr_intervals with `prev_interval = interval`
\* left out: every draw is compared with the mean
RRIter_StalePrev(a) ==
    LET Store(s) ==
            [a EXCEPT !.rng = s.rng,
                      !.left = @ - 1, !.intervals = Append(@, s.interval)]
    IN  Store(RRStep(a.rng, a.mean, a.std, a.prev_interval))

\* the loop of generate_rr_intervals; a = the loop's variables
RRIter(a) ==
    LET Store(s) ==
            [a EXCEPT !.rng = s.rng, !.prev_interval = s.interval,
                      !.left = @ - 1, !.intervals = Append(@, s.interval)]
    IN  Store(RRStep(a.rng, a.mean, a.std, a.prev_interval))

\* the CHOOSE over a singleton evaluates one iteration to a value before
\* the next iteration reads it
RECURSIVE RRLoop(_)
RRLoop(a) ==
    IF a.left <= 0 THEN [rng |-> a.rng, val |-> a.intervals]
    ELSE CHOOSE r \in {RRLoop(b) : b \in {RRIter(a)}} : TRUE

\* BiosignalGenerator.generate_rr_intervals
generate_rr_intervals(st, mean, std, count) ==
    RRLoop([rng |-> st, mean |-> mean, std |-> std, prev_interval |-> mean,
            left |-> count, intervals |-> <<>>])

(***************************************************************************)
(* Scenario descriptors.                                                   *)
(***************************************************************************)
\* EmotionScenario(...): the dataclass constructor with its defaults
EmotionScenario(name, emotion, hr_mean, hr_std, rr_mean, rr_std, duration_seconds, samples_per_second) ==
    [name |-> name, emotion |-> emotion,
     hr_mean |-> hr_mean, hr_std |-> hr_std,
     rr_mean |-> rr_mean, rr_std |-> rr_std,
     duration_seconds |-> duration_seconds,
     samples_per_second |-> samples_per_second]

CALM_SCENARIO ==
    EmotionScenario("Calm - Resting", "Calm",
                    R(65), R(5), R(920), R(50), 60, R(1))

STRESSED_SCENARIO ==
    EmotionScenario("Stressed - Working", "Stressed",
                    R(85), R(8), R(705), R(25), 60, R(1))

AMUSED_SCENARIO ==
    EmotionScenario("Amused - Laughing", "Amused",
                    R(80), R(10), R(750), R(60), 60, R(1))

\* the keys of the tables `scenarios` and `scenarios_map`
EmotionNames == {"Calm", "Stressed", "Amused"}

\* the three module-level descriptor objects as created at import
PredefInit ==
    [e \in EmotionNames |->
        IF e = "Calm" THEN CALM_SCENARIO
        ELSE IF e = "Stressed" THEN STRESSED_SCENARIO
        ELSE AMUSED_SCENARIO]

(***************************************************************************)
(* Renderers (methods of BiosignalGenerator).  Each takes the state of     *)
(* the random stream and returns the new state with the value returned.    *)
(***************************************************************************)
DataPoint(timestamp, hr, rr_intervals, emotion, scenario) ==
    [timestamp |-> timestamp, hr |-> hr, rr_intervals_ms |-> rr_intervals,
     emotion |-> emotion, scenario |-> scenario]

\* `if start_time is None: start_time = datetime.now()`
StartOrNow(start_time, clock) ==
    IF start_time = None THEN clock ELSE start_time[1]

\* the loop body of generate_scenario with the offset i * rate instead of
\* i / rate
ScenarioStep_TimesRate(st, scenario, start, i) ==
    LET timestamp == start + TimedeltaSeconds(
                         RMul(R(i), scenario.samples_per_second))
        Point(hr, rr) ==
            [rng |-> rr.rng,
             val |-> DataPoint(timestamp, hr.val, rr.val,
                               scenario.emotion, scenario.name)]
        Intervals(hr, n) ==
            Point(hr, generate_rr_intervals(n.rng, scenario.rr_mean,
                                            scenario.rr_std, n.val))
        Count(hr) == Intervals(hr, randint(hr.rng, 8, 15))
    IN  Count(generate_hr_sample(st, scenario.hr_mean, scenario.hr_std))

\* one iteration of the loop of generate_scenario
ScenarioStep(st, scenario, start, i) ==
    LET timestamp == start + TimedeltaSeconds(
                         RDiv(R(i), scenario.samples_per_second))
        Point(hr, rr) ==
            [rng |-> rr.rng,
             val |-> DataPoint(timestamp, hr.val, rr.val,
                               scenario.emotion, scenario.name)]
        Intervals(hr, n) ==
            Point(hr, generate_rr_intervals(n.rng, scenario.rr_mean,
                                            scenario.rr_std, n.val))
        Count(hr) == Intervals(hr, randint(hr.rng, 8, 15))
    IN  Count(generate_hr_sample(st, scenario.hr_mean, scenario.hr_std))

\* the loop of generate_scenario; a = the loop's variables
ScenarioIter(a) ==
    LET Store(p) ==
            [a EXCEPT !.rng = p.rng, !.i = @ + 1,
                      !.data_points = Append(@, p.val)]
    IN  Store(ScenarioStep(a.rng, a.scenario, a.start, a.i))

RECURSIVE ScenarioLoop(_)
ScenarioLoop(a) ==
    IF a.i >= a.total_samples THEN [rng |-> a.rng, val |-> a.data_points]
    ELSE CHOOSE r \in {ScenarioLoop(b) : b \in {ScenarioIter(a)}} : TRUE

\* total_samples with round() in place of int()
TotalSamples_Rounded(scenario) ==
    RoundHalfEven(RMul(R(scenario.duration_seconds),
                       scenario.samples_per_second))

\* total_samples = int(duration_seconds * samples_per_second)
TotalSamples(scenario) ==
    IntTrunc(RMul(R(scenario.duration_seconds), scenario.samples_per_second))

\* BiosignalGenerator.generate_scenario
Gen_generate_scenario(st, scenario, start_time, clock) ==
    ScenarioLoop([rng |-> st, scenario |-> scenario,
                  start |-> StartOrNow(start_time, clock), i |-> 0,
                  total_samples |-> TotalSamples(scenario),
                  data_points |-> <<>>])

\* the next render starts at the last timestamp itself, without the step
\* of one second
AdvanceTime_NoStep(current_time, data) ==
    IF data # <<>>
    THEN data[Len(data)].timestamp
    ELSE current_time

\* an update that also steps one second past an empty render
AdvanceTime_EmptyStep(current_time, data) ==
    IF data # <<>>
    THEN data[Len(data)].timestamp + TimedeltaSeconds(R(1))
    ELSE current_time + TimedeltaSeconds(R(1))

\* `current_time = data[-1]["timestamp"] + timedelta(seconds=1)` when
\* data is not empty
AdvanceTime(current_time, data) ==
    IF data # <<>>
    THEN data[Len(data)].timestamp + TimedeltaSeconds(R(1))
    ELSE current_time

\* the loop of generate_session without the update of current_time: every
\* scenario starts at the session's start
SessionIter_NoAdvance(a) ==
    LET Extend(scenario_data) ==
            [a EXCEPT !.rng = scenario_data.rng, !.k = @ + 1,
                      !.all_data = @ \o scenario_data.val]
    IN  Extend(Gen_generate_scenario(a.rng, a.scenarios[a.k],
                                     Some(a.current_time), a.current_time))

\* the loop of generate_session; a = the loop's variables
SessionIter(a) ==
    LET Extend(scenario_data) ==
            [a EXCEPT !.rng = scenario_data.rng, !.k = @ + 1,
                      !.current_time = AdvanceTime(@, scenario_data.val),
                      !.all_data = @ \o scenario_data.val]
    IN  Extend(Gen_generate_scenario(a.rng, a.scenarios[a.k],
                                     Some(a.current_time), a.current_time))

RECURSIVE SessionLoop(_)
SessionLoop(a) ==
    IF a.k > Len(a.scenarios) THEN [rng |-> a.rng, val |-> a.all_data]
    ELSE CHOOSE r \in {SessionLoop(b) : b \in {SessionIter(a)}} : TRUE

\* BiosignalGenerator.generate_session
Gen_generate_session(st, scenarios, start_time, clock) ==
    SessionLoop([rng |-> st, scenarios |-> scenarios, k |-> 1,
                 current_time |-> StartOrNow(start_time, clock),
                 all_data |-> <<>>])

\* a factor of 0 instead of 1.0 when a single sample is asked for
Factor_SingleAtSource(i, total_samples) ==
    IF total_samples > 1 THEN RNorm(i, total_samples - 1) ELSE R(0)

\* a factor that divides by the number of samples
Factor_OverCount(i, total_samples) ==
    IF total_samples > 1 THEN RNorm(i, total_samples) ELSE R(1)

\* `factor = i / (total_samples - 1) if total_samples > 1 else 1.0`
Factor(i, total_samples) ==
    IF total_samples > 1 THEN RNorm(i, total_samples - 1) ELSE R(1)

\* the interpolation run backwards: from b at factor 0 to a at factor 1
Interpolate_Backwards(a, b, factor) == RAdd(b, RMul(factor, RSub(a, b)))

\* `a + factor * (b - a)`
Interpolate(a, b, factor) == RAdd(a, RMul(factor, RSub(b, a)))

\* f"{from_scenario.emotion}→{to_scenario.emotion}" (the arrow is
\* written -> here)
TransitionEmotion(from_scenario, to_scenario) ==
    from_scenario.emotion \o "->" \o to_scenario.emotion

\* f"Transition ({int(factor * 100)}%)"
TransitionName(factor) ==
    "Transition (" \o ToString(IntTrunc(RMul(factor, R(100)))) \o "%)"

\* the loop body of generate_transition with the point at index i stamped
\* i + 1 seconds after the start
TransitionStep_LateStart(st, from_scenario, to_scenario, start, i, total_samples) ==
    LET timestamp == start + TimedeltaSeconds(R(i + 1))
        Point(factor, hr, rr) ==
            [rng |-> rr.rng,
             val |-> DataPoint(timestamp, hr.val, rr.val,
                               TransitionEmotion(from_scenario, to_scenario),
                               TransitionName(factor))]
        Intervals(factor, hr, n) ==
            Point(factor, hr,
                  generate_rr_intervals(
                      n.rng,
                      Interpolate(from_scenario.rr_mean,
                                  to_scenario.rr_mean, factor),
                      Interpolate(from_scenario.rr_std,
                                  to_scenario.rr_std, factor),
                      n.val))
        Count(factor, hr) == Intervals(factor, hr, randint(hr.rng, 8, 15))
        Sample(factor) ==
            Count(factor,
                  generate_hr_sample(
                      st,
                      Interpolate(from_scenario.hr_mean,
                                  to_scenario.hr_mean, factor),
                      Interpolate(from_scenario.hr_std,
                                  to_scenario.hr_std, factor)))
    IN  Sample(Factor(i, total_samples))

\* the loop body of generate_transition with timestamps spaced by the
\* rate of the source descriptor, as generate_scenario spaces them
TransitionStep_AtRate(st, from_scenario, to_scenario, start, i, total_samples) ==
    LET timestamp == start + TimedeltaSeconds(
                         RDiv(R(i), from_scenario.samples_per_second))
        Point(factor, hr, rr) ==
            [rng |-> rr.rng,
             val |-> DataPoint(timestamp, hr.val, rr.val,
                               TransitionEmotion(from_scenario, to_scenario),
                               TransitionName(factor))]
        Intervals(factor, hr, n) ==
            Point(factor, hr,
                  generate_rr_intervals(
                      n.rng,
                      Interpolate(from_scenario.rr_mean,
                                  to_scenario.rr_mean, factor),
                      Interpolate(from_scenario.rr_std,
                                  to_scenario.rr_std, factor),
                      n.val))
        Count(factor, hr) == Intervals(factor, hr, randint(hr.rng, 8, 15))
        Sample(factor) ==
            Count(factor,
                  generate_hr_sample(
                      st,
                      Interpolate(from_scenario.hr_mean,
                                  to_scenario.hr_mean, factor),
                      Interpolate(from_scenario.hr_std,
                                  to_scenario.hr_std, factor)))
    IN  Sample(Factor(i, total_samples))

\* one iteration of the loop of generate_transition
TransitionStep(st, from_scenario, to_scenario, start, i, total_samples) ==
    LET timestamp == start + TimedeltaSeconds(R(i))
        Point(factor, hr, rr) ==
            [rng |-> rr.rng,
             val |-> DataPoint(timestamp, hr.val, rr.val,
                               TransitionEmotion(from_scenario, to_scenario),
                               TransitionName(factor))]
        Intervals(factor, hr, n) ==
            Point(factor, hr,
                  generate_rr_intervals(
                      n.rng,
                      Interpolate(from_scenario.rr_mean,
                                  to_scenario.rr_mean, factor),
                      Interpolate(from_scenario.rr_std,
                                  to_scenario.rr_std, factor),
                      n.val))
        Count(factor, hr) == Intervals(factor, hr, randint(hr.rng, 8, 15))
        Sample(factor) ==
            Count(factor,
                  generate_hr_sample(
                      st,
                      Interpolate(from_scenario.hr_mean,
                                  to_scenario.hr_mean, factor),
                      Interpolate(from_scenario.hr_std,
                                  to_scenario.hr_std, factor)))
    IN  Sample(Factor(i, total_samples))

\* the loop of generate_transition; a = the loop's variables
TransitionIter(a) ==
    LET Store(p) ==
            [a EXCEPT !.rng = p.rng, !.i = @ + 1,
                      !.data_points = Append(@, p.val)]
    IN  Store(TransitionStep(a.rng, a.from_scenario, a.to_scenario, a.start,
                             a.i, a.total_samples))

RECURSIVE TransitionLoop(_)
TransitionLoop(a) ==
    IF a.i >= a.total_samples THEN [rng |-> a.rng, val |-> a.data_points]
    ELSE CHOOSE r \in {TransitionLoop(b) : b \in {TransitionIter(a)}} : TRUE

\* BiosignalGenerator.generate_transition
Gen_generate_transition(st, from_scenario, to_scenario, transition_seconds, start_time, clock) ==
    TransitionLoop([rng |-> st, from_scenario |-> from_scenario,
                    to_scenario |-> to_scenario,
                    start |-> StartOrNow(start_time, clock), i |-> 0,
                    total_samples |-> transition_seconds,
                    data_points |-> <<>>])

\* a constructor that never seeds
Gen_init_IgnoreSeed(st, seed) == st

\* a constructor that tests the seed for truth: `if seed:` skips seed 0
Gen_init_SkipZero(st, seed) ==
    IF seed # None /\ seed[1] # 0 THEN RngSeed(seed[1]) ELSE st

\* BiosignalGenerator.__init__: `if seed is not None: random.seed(seed)`
Gen_init(st, seed) == IF seed # None THEN RngSeed(seed[1]) ELSE st

(***************************************************************************)
(* Convenience functions (module level).  They work on the module-level    *)
(* descriptor objects `predef` and on the process-wide random stream.      *)
(***************************************************************************)
\* what a convenience call leaves behind and hands back
Outcome(st, descs, raised, val) ==
    [rng |-> st, predef |-> descs, raised |-> raised, val |-> val]

\* the duration stored is one second longer than the one asked for
SetDuration_PlusOne(descs, emotion, duration_seconds) ==
    [descs EXCEPT ![emotion].duration_seconds = duration_seconds + 1]

\* `scenario = scenarios[emotion]; scenario.duration_seconds = duration`
SetDuration(descs, emotion, duration_seconds) ==
    [descs EXCEPT ![emotion].duration_seconds = duration_seconds]

\* module-level generate_scenario
generate_scenario(st, descs, emotion, duration_seconds, seed, start_time, clock) ==
    IF emotion \notin EmotionNames
    THEN Outcome(st, descs, TRUE, <<>>)
    ELSE LET Return(descs2, r) == Outcome(r.rng, descs2, FALSE, r.val)
             Render(descs2) ==
                 Return(descs2,
                        Gen_generate_scenario(Gen_init(st, seed),
                                              descs2[emotion], start_time,
                                              clock))
         IN  Render(SetDuration(descs, emotion, duration_seconds))

\* the name-resolution loop with unknown names skipped instead of raising
RECURSIVE ResolveLoop_SkipUnknown(_, _, _, _, _)
ResolveLoop_SkipUnknown(descs, emotions, k, duration_per_emotion, scenarios) ==
    IF k > Len(emotions)
    THEN [predef |-> descs, raised |-> FALSE, scenarios |-> scenarios]
    ELSE IF emotions[k] \notin EmotionNames
    THEN ResolveLoop_SkipUnknown(descs, emotions, k + 1,
                                 duration_per_emotion, scenarios)
    ELSE ResolveLoop_SkipUnknown(
             SetDuration(descs, emotions[k], duration_per_emotion),
             emotions, k + 1, duration_per_emotion,
             Append(scenarios, emotions[k]))

\* the name-resolution loop of module-level generate_session; the list
\* `scenarios` holds references to the module-level objects (their keys)
RECURSIVE ResolveLoop(_, _, _, _, _)
ResolveLoop(descs, emotions, k, duration_per_emotion, scenarios) ==
    IF k > Len(emotions)
    THEN [predef |-> descs, raised |-> FALSE, scenarios |-> scenarios]
    ELSE IF emotions[k] \notin EmotionNames
    THEN [predef |-> descs, raised |-> TRUE, scenarios |-> scenarios]
    ELSE ResolveLoop(SetDuration(descs, emotions[k], duration_per_emotion),
                     emotions, k + 1, duration_per_emotion,
                     Append(scenarios, emotions[k]))

\* the loop with transitions, without the transition: only the scenarios
\* are rendered
WithTransitionsIter_NoTransition(a) ==
    LET Extend(scenario_data) ==
            [a EXCEPT !.rng = scenario_data.rng, !.i = @ + 1,
                      !.current_time =
                          AdvanceTime(a.current_time, scenario_data.val),
                      !.all_data = @ \o scenario_data.val]
    IN  Extend(Gen_generate_scenario(a.rng, a.scenarios[a.i],
                                     Some(a.current_time), a.current_time))

\* the loop with transitions, without the update of current_time after
\* the transition: the next scenario starts where the transition started
WithTransitionsIter_NoAdvanceAfter(a) ==
    LET Extend(scenario_data, t1, transition_data) ==
            [a EXCEPT !.rng = transition_data.rng, !.i = @ + 1,
                      !.current_time = t1,
                      !.all_data = @ \o scenario_data.val
                                     \o transition_data.val]
        Transition(scenario_data, t1) ==
            Extend(scenario_data, t1,
                   IF a.i < Len(a.scenarios)
                   THEN Gen_generate_transition(
                            scenario_data.rng, a.scenarios[a.i],
                            a.scenarios[a.i + 1], 15, Some(t1), t1)
                   ELSE [rng |-> scenario_data.rng, val |-> <<>>])
        Advance(scenario_data) ==
            Transition(scenario_data,
                       AdvanceTime(a.current_time, scenario_data.val))
    IN  Advance(Gen_generate_scenario(a.rng, a.scenarios[a.i],
                                      Some(a.current_time), a.current_time))

\* the loop of module-level generate_session with include_transitions;
\* a = the loop's variables (i counts from 1 here)
WithTransitionsIter(a) ==
    LET Extend(scenario_data, t1, transition_data) ==
            [a EXCEPT !.rng = transition_data.rng, !.i = @ + 1,
                      !.current_time = AdvanceTime(t1, transition_data.val),
                      !.all_data = @ \o scenario_data.val
                                     \o transition_data.val]
        Transition(scenario_data, t1) ==
            Extend(scenario_data, t1,
                   IF a.i < Len(a.scenarios)
                   THEN Gen_generate_transition(
                            scenario_data.rng, a.scenarios[a.i],
                            a.scenarios[a.i + 1], 15, Some(t1), t1)
                   ELSE [rng |-> scenario_data.rng, val |-> <<>>])
        Advance(scenario_data) ==
            Transition(scenario_data,
                       AdvanceTime(a.current_time, scenario_data.val))
    IN  Advance(Gen_generate_scenario(a.rng, a.scenarios[a.i],
                                      Some(a.current_time), a.current_time))

RECURSIVE WithTransitionsLoop(_)
WithTransitionsLoop(a) ==
    IF a.i > Len(a.scenarios) THEN [rng |-> a.rng, val |-> a.all_data]
    ELSE CHOOSE r \in {WithTransitionsLoop(b) : b \in {WithTransitionsIter(a)}} : TRUE

\* module-level generate_session
generate_session(st, descs, emotions, duration_per_emotion, include_transitions, seed, start_time, clock) ==
    LET Return(res, r) == Outcome(r.rng, res.predef, FALSE, r.val)
        Render(res, scenarios, st2) ==
            Return(res,
                   IF ~include_transitions
                   THEN Gen_generate_session(st2, scenarios, start_time,
                                             clock)
                   ELSE WithTransitionsLoop(
                            [rng |-> st2, scenarios |-> scenarios, i |-> 1,
                             current_time |-> StartOrNow(start_time, clock),
                             all_data |-> <<>>]))
        Resolved(res) ==
            IF res.raised THEN Outcome(st, res.predef, TRUE, <<>>)
            ELSE Render(res,
                        [k \in 1 .. Len(res.scenarios) |->
                            res.predef[res.scenarios[k]]],
                        Gen_init(st, seed))
    IN  Resolved(ResolveLoop(descs, emotions, 1, duration_per_emotion, <<>>))

(***************************************************************************)
(* Inputs offered to the operations.                                       *)
(***************************************************************************)
\* seed arguments: None or an integer
Seeds == {None} \cup {Some(s) : s \in 0 .. MaxSeed}
\* start_time arguments: None or an explicit instant
ExplicitStart == 5 * USEC
StartTimes == {None, Some(ExplicitStart)}
\* emotion names passed to the convenience functions; "Angry" is unknown
OfferedNames == EmotionNames \cup {"Angry"}
OfferedDurations == {0, MaxDur}
\* emotion lists passed to the convenience generate_session
OfferedSessions ==
    {<<>>, <<"Calm">>, <<"Angry">>, <<"Calm", "Stressed">>,
     <<"Stressed", "Angry">>, <<"Angry", "Calm">>}
\* longer emotion lists, for sessions of several scenarios and transitions
TourSessions ==
    {<<>>, <<"Calm">>, <<"Calm", "Calm">>, <<"Calm", "Angry">>,
     <<"Calm", "Stressed", "Amused">>}
\* mean / std arguments of direct sampler calls
HrMeans == {R(20), R(65), R(210)}
HrStds == {R(0), R(5), R(60)}
RrMeans == {R(150), R(250), R(920), R(2050)}
RrStds == {R(0), R(50), R(400)}
Counts == (-1) .. MaxCount
TransitionLengths == (-1) .. MaxTrans

\* caller-built descriptors passed to the methods of BiosignalGenerator
Fast == EmotionScenario("Fast", "Calm", R(65), R(5), R(920), R(50), 1, R(2))
Third == EmotionScenario("Third", "Amused", R(190), R(10), R(1950), R(60),
                         1, R(3))
Slow == EmotionScenario("Slow", "Stressed", R(35), R(8), R(330), R(25),
                        3, <<1, 2>>)
Negative == EmotionScenario("Negative", "Calm", R(65), R(5), R(920), R(50),
                            -1, R(1))
NegativeHalf == EmotionScenario("NegativeHalf", "Calm", R(65), R(5), R(920),
                                R(50), -1, <<1, 2>>)
Still == EmotionScenario("Still", "Calm", R(65), R(5), R(920), R(50),
                         2, R(0))
Backward == EmotionScenario("Backward", "Calm", R(65), R(5), R(920), R(50),
                            -2, R(-1))
CustomScenarios ==
    {Fast, Third, Slow, Negative, NegativeHalf, Still, Backward}
SessionPool == {Fast, Third, Negative}
CustomSessions ==
    {<<>>} \cup {<<a>> : a \in SessionPool}
           \cup {<<a, b>> : a \in SessionPool, b \in SessionPool}
           \cup {<<Fast, Negative, Third>>}
TransitionPairs == {<<Third, Slow>>, <<Slow, Third>>, <<Fast, Fast>>}

(***************************************************************************)
(* State of one Python process using the package.                          *)
(***************************************************************************)
VARIABLES
    rng,      \* state of the random module
    predef,   \* the module-level descriptors, by emotion name
    now,      \* datetime.now(), in microseconds
    pc,       \* "idle", or "returned" while the caller holds a result
    call,     \* the call that produced the result held
    ret,      \* the value returned
    raised,   \* TRUE when the call raised ValueError
    \* a second process or run, compared with the first
    rngB,     \* state of its random module
    nowB,     \* its datetime.now()
    retB,     \* the value its call returned
    \* two threads of one process inside the convenience generate_scenario
    tpc,      \* per thread: the line it is at
    targ,     \* per thread: the arguments of its call
    tloc,     \* per thread: its local variables
    \* the example program streaming_data.py
    demo,     \* the fields of its StreamingDemo and of the stream it holds
    stack,    \* the call stack of its main thread, innermost frame last
    sent,     \* the interrupt signals delivered to it so far
    stats     \* how many times it has printed the final statistics

procVars == <<rng, predef, now, pc, call, ret, raised>>
twinVars == <<rngB, nowB, retB>>
parVars == <<tpc, targ, tloc>>
demoVars == <<demo, stack, sent, stats>>
vars == <<procVars, twinVars, parVars, demoVars>>

Threads == {1, 2}

\* no second run
TwinIdle == rngB = 0 /\ nowB = 0 /\ retB = <<>>
\* no threads
ParIdle ==
    /\ tpc = [t \in Threads |-> "off"]
    /\ targ = [t \in Threads |-> <<>>]
    /\ tloc = [t \in Threads |-> <<>>]
\* no example program
DemoIdle == demo = <<>> /\ stack = <<>> /\ sent = 0 /\ stats = 0

\* after `import syndata` in a fresh process; the random module is
\* seeded from the operating system
Init ==
    /\ rng \in RngStates
    /\ predef = PredefInit
    /\ now = 0
    /\ pc = "idle"
    /\ call = [op |-> "import"]
    /\ ret = <<>>
    /\ raised = FALSE
    /\ TwinIdle
    /\ ParIdle
    /\ DemoIdle

\* time passes
Tick ==
    /\ now < MaxClock * USEC
    /\ now' = now + USEC
    /\ UNCHANGED <<rng, predef, pc, call, ret, raised, twinVars, parVars, demoVars>>

\* the caller drops the result it holds
Discard ==
    /\ pc = "returned"
    /\ pc' = "idle"
    /\ call' = [op |-> "none"]
    /\ ret' = <<>>
    /\ raised' = FALSE
    /\ UNCHANGED <<rng, predef, now, twinVars, parVars, demoVars>>

\* a method call returns `r.val` and leaves the random stream at `r.rng`
MethodReturns(c, r) ==
    /\ pc = "idle"
    /\ pc' = "returned"
    /\ call' = c
    /\ rng' = r.rng
    /\ ret' = r.val
    /\ raised' = FALSE
    /\ UNCHANGED <<predef, now, twinVars, parVars, demoVars>>

\* a convenience call ends with outcome `o`
ConvenienceReturns(c, o) ==
    /\ pc = "idle"
    /\ pc' = "returned"
    /\ call' = c
    /\ rng' = o.rng
    /\ predef' = o.predef
    /\ ret' = o.val
    /\ raised' = o.raised
    /\ UNCHANGED <<now, twinVars, parVars, demoVars>>

\* BiosignalGenerator(seed); call.rng is the state of the random module
\* when the call was made
NewGenerator ==
    \E seed \in Seeds :
        MethodReturns([op |-> "__init__", seed |-> seed, rng |-> rng],
                      [rng |-> Gen_init(rng, seed), val |-> <<>>])

\* generator.generate_hr_sample(mean, std)
CallHrSample ==
    \E mean \in HrMeans, std \in HrStds :
        MethodReturns([op |-> "hr_sample", mean |-> mean, std |-> std],
                      generate_hr_sample(rng, mean, std))

\* generator.generate_rr_intervals(mean, std, count); call.rng is the
\* state of the random module when the call was made
CallRrIntervals ==
    \E mean \in RrMeans, std \in RrStds, count \in Counts :
        MethodReturns([op |-> "rr_intervals", mean |-> mean, std |-> std,
                       count |-> count, rng |-> rng],
                      generate_rr_intervals(rng, mean, std, count))

\* generator.generate_scenario(scenario, start_time)
CallScenario ==
    \E sc \in CustomScenarios, stt \in StartTimes :
        MethodReturns([op |-> "scenario", scenario |-> sc,
                       start_time |-> stt, clock |-> now],
                      Gen_generate_scenario(rng, sc, stt, now))

\* generator.generate_session(scenarios, start_time); call.rng is the
\* state of the random module when the call was made
CallSession ==
    \E scenarios \in CustomSessions, start_time \in StartTimes :
        MethodReturns([op |-> "session", scenarios |-> scenarios,
                       start_time |-> start_time, clock |-> now,
                       rng |-> rng],
                      Gen_generate_session(rng, scenarios, start_time, now))

\* generator.generate_transition(from, to, transition_seconds, start_time);
\* call.rng is the state of the random module when the call was made
CallTransition ==
    \E pair \in TransitionPairs, n \in TransitionLengths,
       start_time \in StartTimes :
        MethodReturns([op |-> "transition", from_scenario |-> pair[1],
                       to_scenario |-> pair[2], transition_seconds |-> n,
                       start_time |-> start_time, clock |-> now,
                       rng |-> rng],
                      Gen_generate_transition(rng, pair[1], pair[2], n,
                                              start_time, now))

\* generate_scenario(emotion, duration_seconds, seed, start_time)
ConvScenario ==
    \E emotion \in OfferedNames, d \in OfferedDurations, seed \in Seeds,
       start_time \in StartTimes :
        ConvenienceReturns(
            [op |-> "conv_scenario", emotion |-> emotion,
             duration_seconds |-> d, seed |-> seed,
             start_time |-> start_time, clock |-> now],
            generate_scenario(rng, predef, emotion, d, seed, start_time, now))

\* generate_session(emotions, duration_per_emotion, include_transitions,
\*                  seed, start_time)
ConvSessionOf(lists) ==
    \E emotions \in lists, d \in OfferedDurations,
       tr \in BOOLEAN, seed \in Seeds, start_time \in StartTimes :
        ConvenienceReturns(
            [op |-> "conv_session", emotions |-> emotions,
             duration_per_emotion |-> d, include_transitions |-> tr,
             seed |-> seed, start_time |-> start_time, clock |-> now],
            generate_session(rng, predef, emotions, d, tr, seed, start_time,
                             now))

ConvSession == ConvSessionOf(OfferedSessions)

\* the same call with the longer lists
ConvTour == ConvSessionOf(TourSessions)

\* a process that uses a BiosignalGenerator with its own descriptors
Next ==
    \/ Tick
    \/ Discard
    \/ NewGenerator
    \/ CallHrSample
    \/ CallRrIntervals
    \/ CallScenario
    \/ CallSession
    \/ CallTransition

Spec == Init /\ [][Next]_vars

\* a process that uses the convenience functions
NextConv ==
    \/ Discard
    \/ NewGenerator
    \/ ConvScenario
    \/ ConvSession

SpecConv == Init /\ [][NextConv]_vars

\* a process that renders sequences with the methods of BiosignalGenerator
\* and with the convenience generate_session
NextSeq ==
    \/ Discard
    \/ CallScenario
    \/ CallSession
    \/ CallTransition
    \/ ConvSession

SpecSeq == Init /\ [][NextSeq]_vars

\* a process that renders sessions of several emotions with the
\* convenience generate_session
NextTour ==
    \/ Discard
    \/ ConvTour

SpecTour == Init /\ [][NextTour]_vars

(***************************************************************************)
(* The command-line interface cli.py: one run of main() in a fresh         *)
(* process.  pc is the place main() has reached: "parsed" after            *)
(* parse_args, "validated" after the two argument checks, "generated"      *)
(* once data is held, "exported" once the files are written,               *)
(* "usage_error" after parser.error (exit status 2) and "failed" after     *)
(* the except branch (exit status 1).  call holds the parsed arguments.    *)
(***************************************************************************)
\* values of --session: absent, or one or more names (nargs="+")
CliSessions ==
    {None, Some(<<"Calm">>), Some(<<"Calm", "Stressed">>),
     Some(<<"Angry">>)}

\* parser.parse_args(): --emotion outside its choices is rejected by
\* argparse itself
CliParse ==
    \E emotion \in {None} \cup {Some(e) : e \in OfferedNames},
       session \in CliSessions, d \in OfferedDurations, tr \in BOOLEAN,
       seed \in Seeds :
        /\ pc = "idle"
        /\ call.op = "import"
        /\ call' = [op |-> "cli", emotion |-> emotion, session |-> session,
                    duration |-> d, transitions |-> tr, seed |-> seed]
        /\ pc' = IF emotion # None /\ emotion[1] \notin EmotionNames
                 THEN "usage_error" ELSE "parsed"
        /\ UNCHANGED <<rng, predef, now, ret, raised, twinVars, parVars, demoVars>>

\* a validation that only rejects the call without any mode
CliValidate_AllowBoth ==
    /\ pc = "parsed"
    /\ pc' = IF call.emotion = None /\ call.session = None
             THEN "usage_error"
             ELSE "validated"
    /\ UNCHANGED <<rng, predef, now, call, ret, raised, twinVars, parVars, demoVars>>

\* `if not args.emotion and not args.session: parser.error(...)` and
\* `if args.emotion and args.session: parser.error(...)`
CliValidate ==
    /\ pc = "parsed"
    /\ pc' = IF call.emotion = None /\ call.session = None
             THEN "usage_error"
             ELSE IF call.emotion # None /\ call.session # None
             THEN "usage_error"
             ELSE "validated"
    /\ UNCHANGED <<rng, predef, now, call, ret, raised, twinVars, parVars, demoVars>>

\* the try block up to `data = ...`: generate_scenario for --emotion,
\* generate_session otherwise, with start_time=datetime.now(); an
\* exception leads to the except branch
CliGenerate ==
    /\ pc = "validated"
    /\ LET Finish(o) ==
               /\ rng' = o.rng
               /\ predef' = o.predef
               /\ ret' = o.val
               /\ raised' = o.raised
               /\ pc' = IF o.raised THEN "failed" ELSE "generated"
       IN  Finish(IF call.emotion # None
                  THEN generate_scenario(rng, predef, call.emotion[1],
                                         call.duration, call.seed,
                                         Some(now), now)
                  ELSE generate_session(rng, predef, call.session[1],
                                        call.duration, call.transitions,
                                        call.seed, Some(now), now))
    /\ UNCHANGED <<now, call, twinVars, parVars, demoVars>>

\* the export of the data held; an exporter may raise, which leads to the
\* except branch
CliExport ==
    /\ pc = "generated"
    /\ \E ok \in BOOLEAN : pc' = IF ok THEN "exported" ELSE "failed"
    /\ UNCHANGED <<rng, predef, now, call, ret, raised, twinVars, parVars, demoVars>>

NextCli ==
    \/ CliParse
    \/ CliValidate
    \/ CliGenerate
    \/ CliExport

SpecCli == Init /\ [][NextCli]_vars

(***************************************************************************)
(* Two runs of the same program, in two processes: each constructs a       *)
(* generator with the same seed and then makes the same calls with the     *)
(* same arguments.  The processes have their own random module (seeded    *)
(* from the operating system at start) and their own clock.                *)
(***************************************************************************)
InitDet ==
    /\ \E seed \in 0 .. MaxSeed, r1 \in RngStates, r2 \in RngStates :
           /\ rng = Gen_init(r1, Some(seed))
           /\ rngB = Gen_init(r2, Some(seed))
    /\ predef = PredefInit
    /\ now = 0
    /\ nowB = 0
    /\ pc = "idle"
    /\ call = [op |-> "__init__"]
    /\ ret = <<>>
    /\ retB = <<>>
    /\ raised = FALSE
    /\ ParIdle
    /\ DemoIdle

\* time passes in the first run
DetTickA ==
    /\ now < MaxClock * USEC
    /\ now' = now + USEC
    /\ UNCHANGED <<rng, predef, pc, call, ret, raised, twinVars, parVars, demoVars>>

\* time passes in the second run
DetTickB ==
    /\ nowB < MaxClock * USEC
    /\ nowB' = nowB + USEC
    /\ UNCHANGED <<procVars, rngB, retB, parVars, demoVars>>

\* both callers drop the result they hold
DetDiscard ==
    /\ pc = "returned"
    /\ pc' = "idle"
    /\ call' = [op |-> "none"]
    /\ ret' = <<>>
    /\ retB' = <<>>
    /\ UNCHANGED <<rng, rngB, predef, now, nowB, raised, parVars, demoVars>>

\* the same method call returns ra in the first run and rb in the second
BothReturn(c, ra, rb) ==
    /\ pc = "idle"
    /\ pc' = "returned"
    /\ call' = c
    /\ rng' = ra.rng
    /\ ret' = ra.val
    /\ rngB' = rb.rng
    /\ retB' = rb.val
    /\ UNCHANGED <<predef, now, nowB, raised, parVars, demoVars>>

DetCallScenario ==
    \E scenario \in CustomScenarios, start_time \in StartTimes :
        BothReturn([op |-> "scenario", scenario |-> scenario,
                    start_time |-> start_time],
                   Gen_generate_scenario(rng, scenario, start_time, now),
                   Gen_generate_scenario(rngB, scenario, start_time, nowB))

DetCallSession ==
    \E scenarios \in CustomSessions, start_time \in StartTimes :
        BothReturn([op |-> "session", scenarios |-> scenarios,
                    start_time |-> start_time],
                   Gen_generate_session(rng, scenarios, start_time, now),
                   Gen_generate_session(rngB, scenarios, start_time, nowB))

DetCallTransition ==
    \E pair \in TransitionPairs, n \in TransitionLengths,
       start_time \in StartTimes :
        BothReturn([op |-> "transition", from_scenario |-> pair[1],
                    to_scenario |-> pair[2], transition_seconds |-> n,
                    start_time |-> start_time],
                   Gen_generate_transition(rng, pair[1], pair[2], n,
                                           start_time, now),
                   Gen_generate_transition(rngB, pair[1], pair[2], n,
                                           start_time, nowB))

NextDet ==
    \/ DetTickA
    \/ DetTickB
    \/ DetDiscard
    \/ DetCallScenario
    \/ DetCallSession
    \/ DetCallTransition

SpecDet == InitDet /\ [][NextDet]_vars

(***************************************************************************)
(* One process seen twice: with generator g used alone (rng, ret), and     *)
(* with the same calls on g while other BiosignalGenerator instances are   *)
(* constructed and used in between (rngB, retB).                           *)
(***************************************************************************)
InitIndep ==
    /\ \E seed \in Seeds, r \in RngStates :
           /\ rng = Gen_init(r, seed)
           /\ rngB = Gen_init(r, seed)
    /\ predef = PredefInit
    /\ now = 0
    /\ nowB = 0
    /\ pc = "idle"
    /\ call = [op |-> "__init__"]
    /\ ret = <<>>
    /\ retB = <<>>
    /\ raised = FALSE
    /\ ParIdle
    /\ DemoIdle

\* other = BiosignalGenerator(seed), only where the other instance exists
OtherNew ==
    /\ pc = "idle"
    /\ \E seed \in Seeds : rngB' = Gen_init(rngB, seed)
    /\ UNCHANGED <<procVars, nowB, retB, parVars, demoVars>>

\* other.generate_hr_sample(mean, std), only where the other instance
\* exists
OtherUse ==
    /\ pc = "idle"
    /\ \E mean \in HrMeans, std \in HrStds :
           rngB' = generate_hr_sample(rngB, mean, std).rng
    /\ UNCHANGED <<procVars, nowB, retB, parVars, demoVars>>

\* g.generate_hr_sample(mean, std)
IndepCallHrSample ==
    \E mean \in HrMeans, std \in HrStds :
        BothReturn([op |-> "hr_sample", mean |-> mean, std |-> std],
                   generate_hr_sample(rng, mean, std),
                   generate_hr_sample(rngB, mean, std))

\* g.generate_scenario(scenario, start_time)
IndepCallScenario ==
    \E scenario \in CustomScenarios, start_time \in StartTimes :
        BothReturn([op |-> "scenario", scenario |-> scenario,
                    start_time |-> start_time],
                   Gen_generate_scenario(rng, scenario, start_time, now),
                   Gen_generate_scenario(rngB, scenario, start_time, nowB))

NextIndep ==
    \/ DetDiscard
    \/ OtherNew
    \/ OtherUse
    \/ IndepCallHrSample
    \/ IndepCallScenario

SpecIndep == InitIndep /\ [][NextIndep]_vars

(***************************************************************************)
(* Two threads of one process, each inside one call of the convenience     *)
(* generate_scenario for the same emotion name.  The threads share the     *)
(* module-level descriptors and the random module; the interpreter may     *)
(* switch threads between any two statements.  One loop iteration is one   *)
(* step (its draws are not interleaved with the other thread's).           *)
(***************************************************************************)
InitPar ==
    /\ rng \in RngStates
    /\ predef = PredefInit
    /\ now = 0
    /\ pc = "idle"
    /\ call = [op |-> "threads"]
    /\ ret = <<>>
    /\ raised = FALSE
    /\ TwinIdle
    /\ \E emotion \in EmotionNames, seed \in Seeds,
          d \in [Threads -> 0 .. MaxDur] :
           targ = [t \in Threads |->
                      [emotion |-> emotion, duration_seconds |-> d[t],
                       seed |-> seed, start_time |-> Some(ExplicitStart)]]
    /\ tpc = [t \in Threads |-> "resolve"]
    /\ tloc = [t \in Threads |->
                  [start |-> 0, total_samples |-> 0, i |-> 0,
                   data_points |-> <<>>]]
    /\ DemoIdle

\* `if emotion not in scenarios: raise`; `scenario = scenarios[emotion]`;
\* `scenario.duration_seconds = duration_seconds`
ParResolve(t) ==
    /\ tpc[t] = "resolve"
    /\ IF targ[t].emotion \notin EmotionNames
       THEN /\ tpc' = [tpc EXCEPT ![t] = "raised"]
            /\ UNCHANGED predef
       ELSE /\ predef' = SetDuration(predef, targ[t].emotion,
                                     targ[t].duration_seconds)
            /\ tpc' = [tpc EXCEPT ![t] = "construct"]
    /\ UNCHANGED <<rng, now, pc, call, ret, raised, twinVars, targ, tloc, demoVars>>

\* `generator = BiosignalGenerator(seed=seed)`
ParConstruct(t) ==
    /\ tpc[t] = "construct"
    /\ rng' = Gen_init(rng, targ[t].seed)
    /\ tpc' = [tpc EXCEPT ![t] = "count"]
    /\ UNCHANGED <<predef, now, pc, call, ret, raised, twinVars, targ, tloc, demoVars>>

\* generator.generate_scenario up to its loop: start_time and
\* `total_samples = int(scenario.duration_seconds * ...)`
ParCount(t) ==
    /\ tpc[t] = "count"
    /\ tloc' = [tloc EXCEPT ![t] =
                   [start |-> StartOrNow(targ[t].start_time, now),
                    total_samples |-> TotalSamples(predef[targ[t].emotion]),
                    i |-> 0, data_points |-> <<>>]]
    /\ tpc' = [tpc EXCEPT ![t] = "loop"]
    /\ UNCHANGED <<procVars, twinVars, targ, demoVars>>

\* one iteration of `for i in range(total_samples)`
ParIter(t) ==
    /\ tpc[t] = "loop"
    /\ tloc[t].i < tloc[t].total_samples
    /\ LET p == ScenarioStep(rng, predef[targ[t].emotion], tloc[t].start,
                             tloc[t].i)
       IN  /\ rng' = p.rng
           /\ tloc' = [tloc EXCEPT ![t].i = @ + 1,
                                   ![t].data_points = Append(@, p.val)]
    /\ UNCHANGED <<predef, now, pc, call, ret, raised, twinVars, tpc, targ, demoVars>>

\* `return data_points`
ParReturn(t) ==
    /\ tpc[t] = "loop"
    /\ tloc[t].i >= tloc[t].total_samples
    /\ tpc' = [tpc EXCEPT ![t] = "done"]
    /\ UNCHANGED <<procVars, twinVars, targ, tloc, demoVars>>

NextPar ==
    \E t \in Threads :
        \/ ParResolve(t)
        \/ ParConstruct(t)
        \/ ParCount(t)
        \/ ParIter(t)
        \/ ParReturn(t)

SpecPar == InitPar /\ [][NextPar]_vars

(***************************************************************************)
(* The example program examples/python-example/streaming_data.py: one      *)
(* process whose main thread runs main().  A frame of the call stack is    *)
(* the function and the source line it is at; only the innermost frame     *)
(* runs.  SIGINT and SIGTERM are handled by StreamingDemo.handle_interrupt *)
(* (lines 87-88): Python calls the handler in the main thread between two  *)
(* bytecode instructions, on top of whatever frame is running, also on top *)
(* of a handler that is still running; which boundaries an interpreter     *)
(* build takes is not fixed, so every boundary between two modelled        *)
(* statements is one.  The emotion engine is an imported package: a push   *)
(* either succeeds or raises.                                              *)
(***************************************************************************)
\* interrupt signals delivered in one run
MaxSignals == 2
\* sample counts above this are not told apart
MaxSamples == 2

Frame(fn, line) == [fn |-> fn, line |-> line]
\* the line of a frame that has reached its return
Return == 0
\* the innermost frame
Top == stack[Len(stack)]
At(fn, line) == stack # <<>> /\ Top = Frame(fn, line)
\* the innermost frame moves to `line`
Goto(line) == stack' = [stack EXCEPT ![Len(stack)].line = line]
\* the innermost frame calls fn and will continue at `after`
Invoke(after, fn, line) == stack' = Append([stack EXCEPT ![Len(stack)].line = after], Frame(fn, line))
\* the variables of the other programs
others == <<procVars, twinVars, parVars>>

\* main() after `demo = StreamingDemo()`: __init__ has set the fields and
\* installed the handlers
InitDemo ==
    /\ rng \in RngStates
    /\ predef = PredefInit
    /\ now = 0
    /\ pc = "idle"
    /\ call = [op |-> "import"]
    /\ ret = <<>>
    /\ raised = FALSE
    /\ TwinIdle
    /\ ParIdle
    /\ demo = [engine |-> FALSE, stream |-> FALSE, stream_running |-> FALSE,
               running |-> FALSE, sample_count |-> 0]
    /\ stack = <<Frame("main", 240)>>
    /\ sent = 0
    /\ stats = 0

\* a signal arrives and handle_interrupt is called at this boundary
Interrupt ==
    /\ stack # <<>>
    /\ sent < MaxSignals
    /\ sent' = sent + 1
    /\ stack' = Append(stack, Frame("handle_interrupt", 92))
    /\ UNCHANGED <<demo, stats, others>>

\* `demo.run()`
MainCallsRun ==
    /\ At("main", 240)
    /\ Invoke(Return, "run", 181)
    /\ UNCHANGED <<demo, sent, stats, others>>

\* `self.initialize()`
RunCallsInitialize ==
    /\ At("run", 181)
    /\ Invoke(187, "initialize", 111)
    /\ UNCHANGED <<demo, sent, stats, others>>

\* `self.engine = EmotionEngine.from_pretrained(config)`
InitializeEngine ==
    /\ At("initialize", 111)
    /\ demo' = [demo EXCEPT !.engine = TRUE]
    /\ Goto(118)
    /\ UNCHANGED <<sent, stats, others>>

\* `self.stream = BiosignalStream()`, whose __init__ sets running = False
InitializeStream ==
    /\ At("initialize", 118)
    /\ demo' = [demo EXCEPT !.stream = TRUE, !.stream_running = FALSE]
    /\ Goto(122)
    /\ UNCHANGED <<sent, stats, others>>

\* `self.running = True`
InitializeRunning ==
    /\ At("initialize", 122)
    /\ demo' = [demo EXCEPT !.running = TRUE]
    /\ Goto(Return)
    /\ UNCHANGED <<sent, stats, others>>

\* `self.stream.start()`
RunStartsStream ==
    /\ At("run", 187)
    /\ demo' = [demo EXCEPT !.stream_running = TRUE]
    /\ Goto(190)
    /\ UNCHANGED <<sent, stats, others>>

\* `while self.running and self.stream.running:`
RunWhile ==
    /\ At("run", 190)
    /\ Goto(IF demo.running /\ demo.stream_running THEN 192 ELSE 206)
    /\ UNCHANGED <<demo, sent, stats, others>>

\* the loop body up to the sleep: maybe_change_state and process_sample,
\* which counts the sample unless the engine raises
RunBody ==
    /\ At("run", 192)
    /\ \E ok \in BOOLEAN :
           IF ok
           THEN /\ demo' = [demo EXCEPT !.sample_count =
                               IF @ < MaxSamples THEN @ + 1 ELSE @]
                /\ Goto(198)
           ELSE /\ demo' = demo
                /\ Goto(200)
    /\ UNCHANGED <<sent, stats, others>>

\* `time.sleep(1.0)`
RunSleep ==
    /\ At("run", 198)
    /\ Goto(190)
    /\ UNCHANGED <<demo, sent, stats, others>>

\* `except Exception as e:` prints the error
RunExcept ==
    /\ At("run", 200)
    /\ Goto(206)
    /\ UNCHANGED <<demo, sent, stats, others>>

\* `finally: self.stop()`
RunFinally ==
    /\ At("run", 206)
    /\ Invoke(Return, "stop", 210)
    /\ UNCHANGED <<demo, sent, stats, others>>

\* handle_interrupt: the print
HandlePrint ==
    /\ At("handle_interrupt", 92)
    /\ Goto(93)
    /\ UNCHANGED <<demo, sent, stats, others>>

\* handle_interrupt: `self.stop()`
HandleCallsStop ==
    /\ At("handle_interrupt", 93)
    /\ Invoke(Return, "stop", 210)
    /\ UNCHANGED <<demo, sent, stats, others>>

\* stop: `if not self.running: return`
StopTest ==
    /\ At("stop", 210)
    /\ Goto(IF ~demo.running THEN Return ELSE 213)
    /\ UNCHANGED <<demo, sent, stats, others>>

\* stop: `self.running = False`
StopClear ==
    /\ At("stop", 213)
    /\ demo' = [demo EXCEPT !.running = FALSE]
    /\ Goto(215)
    /\ UNCHANGED <<sent, stats, others>>

\* stop: `if self.stream: self.stream.stop()`
StopStream ==
    /\ At("stop", 215)
    /\ demo' = [demo EXCEPT !.stream_running = IF demo.stream THEN FALSE ELSE @]
    /\ Goto(218)
    /\ UNCHANGED <<sent, stats, others>>

\* stop: the final statistics are printed
StopStats ==
    /\ At("stop", 218)
    /\ stats' = stats + 1
    /\ Goto(Return)
    /\ UNCHANGED <<demo, sent, others>>

\* a function returns to its caller; main's return ends the process
FrameReturns ==
    /\ stack # <<>>
    /\ Top.line = Return
    /\ stack' = SubSeq(stack, 1, Len(stack) - 1)
    /\ UNCHANGED <<demo, sent, stats, others>>

\* the main thread runs its innermost frame
StepDemo ==
    \/ MainCallsRun
    \/ RunCallsInitialize
    \/ InitializeEngine
    \/ InitializeStream
    \/ InitializeRunning
    \/ RunStartsStream
    \/ RunWhile
    \/ RunBody
    \/ RunSleep
    \/ RunExcept
    \/ RunFinally
    \/ HandlePrint
    \/ HandleCallsStop
    \/ StopTest
    \/ StopClear
    \/ StopStream
    \/ StopStats
    \/ FrameReturns

NextDemo == StepDemo \/ Interrupt

SpecDemo == InitDemo /\ [][NextDemo]_vars

\* the interpreter keeps running the main thread
SpecDemoLive == SpecDemo /\ WF_vars(StepDemo)

(***************************************************************************)
(* Properties.                                                             *)
(***************************************************************************)
\* the data points held by the caller after a call of one of the rendering
\* methods of BiosignalGenerator
RenderedPoints ==
    IF pc = "returned" /\ call.op \in {"scenario", "session", "transition"}
    THEN {ret[i] : i \in 1 .. Len(ret)}
    ELSE {}

Between(lo, x, hi) == RLe(R(lo), x) /\ RLe(x, R(hi))

\* C1: every hr value returned by generate_hr_sample, and every hr of a
\* data point returned by generate_scenario, generate_session and
\* generate_transition, lies in [30, 200].
C1_HrInRange ==
    /\ (pc = "returned" /\ call.op = "hr_sample") => Between(30, ret, 200)
    /\ \A p \in RenderedPoints : Between(30, p.hr, 200)

\* a heart rate of mean 65 came back as exactly 200: the draw was clamped
C1_Witness ==
    /\ pc = "returned"
    /\ call.op = "hr_sample"
    /\ call.mean = R(65)
    /\ ret = R(200)

\* C2: every value of every rr_intervals_ms list returned by
\* generate_rr_intervals and by the rendering methods lies in [300, 2000].
C2_RrInRange ==
    /\ (pc = "returned" /\ call.op = "rr_intervals") =>
           \A i \in 1 .. Len(ret) : Between(300, ret[i], 2000)
    /\ \A p \in RenderedPoints :
           \A i \in 1 .. Len(p.rr_intervals_ms) :
               Between(300, p.rr_intervals_ms[i], 2000)

\* a walk around a mean above the range came back with its first value
\* clamped to 2000 and a later value below it
C2_Witness ==
    /\ pc = "returned"
    /\ call.op = "rr_intervals"
    /\ call.mean = R(2050)
    /\ Len(ret) >= 2
    /\ ret[1] = R(2000)
    /\ \E i \in 2 .. Len(ret) : RLt(ret[i], R(2000))

\* C3: in the list returned by one call of generate_rr_intervals no two
\* consecutive intervals differ by more than 100 ms.
C3_SmoothWalk ==
    (pc = "returned" /\ call.op = "rr_intervals") =>
        \A i \in 1 .. (Len(ret) - 1) :
            RLe(RAbs(RSub(ret[i + 1], ret[i])), R(100))

\* a walk with std 400 (every non-zero draw is more than 100 away from the
\* mean) returned two consecutive values exactly 100 apart
C3_Witness ==
    /\ pc = "returned"
    /\ call.op = "rr_intervals"
    /\ call.std = R(400)
    /\ \E i \in 1 .. (Len(ret) - 1) :
           RAbs(RSub(ret[i + 1], ret[i])) = R(100)

\* floor of a rational
Floor(a) == a[1] \div a[2]

\* C9: generate_scenario returns floor(duration_seconds *
\* samples_per_second) points when that number is positive and an empty
\* sequence, without an error, when it is zero or negative.
C9_PointCount ==
    (pc = "returned" /\ call.op = "scenario") =>
        LET n == Floor(RMul(R(call.scenario.duration_seconds),
                            call.scenario.samples_per_second))
        IN  /\ ~raised
            /\ n > 0 => Len(ret) = n
            /\ n <= 0 => ret = <<>>

\* 3 seconds at 0.5 samples per second: floor(1.5) = 1 point
C9_Witness ==
    /\ pc = "returned"
    /\ call.op = "scenario"
    /\ call.scenario = Slow
    /\ Len(ret) = 1

\* C10 as stated: the point at index i has timestamp exactly
\* start_time + i / samples_per_second seconds.
C10_ExactTimestamps ==
    (pc = "returned" /\ call.op = "scenario" /\ call.start_time # None) =>
        \A i \in 0 .. (Len(ret) - 1) :
            (ret[i + 1].timestamp - call.start_time[1])
                * call.scenario.samples_per_second[1]
            = i * USEC * call.scenario.samples_per_second[2]

\* C10 amended: the point at index i has timestamp start_time + i /
\* samples_per_second seconds rounded to the nearest microsecond, i.e. it
\* is a whole number of microseconds at most half a microsecond away.
C10_NearestMicrosecond ==
    (pc = "returned" /\ call.op = "scenario" /\ call.start_time # None) =>
        \A i \in 0 .. (Len(ret) - 1) :
            2 * Abs((ret[i + 1].timestamp - call.start_time[1])
                        * call.scenario.samples_per_second[1]
                    - i * USEC * call.scenario.samples_per_second[2])
            <= Abs(call.scenario.samples_per_second[1])

\* three samples per second from an explicit start: the points lie at
\* 0, 333333 and 666667 microseconds after it
C10_Witness ==
    /\ pc = "returned"
    /\ call.op = "scenario"
    /\ call.start_time = Some(ExplicitStart)
    /\ call.scenario = Third
    /\ Len(ret) = 3
    /\ ret[2].timestamp = ExplicitStart + 333333
    /\ ret[3].timestamp = ExplicitStart + 666667

\* C7: after any sequence of calls of the convenience functions the
\* predefined descriptors hold their original field values, in particular
\* duration_seconds = 60.
C7_PredefinedUnchanged ==
    /\ predef["Calm"] = CALM_SCENARIO
    /\ predef["Stressed"] = STRESSED_SCENARIO
    /\ predef["Amused"] = AMUSED_SCENARIO
    /\ \A e \in EmotionNames : predef[e].duration_seconds = 60

KnownNames == {"Calm", "Stressed", "Amused"}

\* C8: the convenience generate_scenario raises exactly when its emotion
\* is not a known name, the convenience generate_session exactly when some
\* element of its list is not; a call that raises returns no data points.
C8_UnknownNameRaises ==
    /\ (pc = "returned" /\ call.op = "conv_scenario") =>
           /\ raised <=> call.emotion \notin KnownNames
           /\ raised => ret = <<>>
    /\ (pc = "returned" /\ call.op = "conv_session") =>
           /\ raised <=> (\E k \in 1 .. Len(call.emotions) :
                              call.emotions[k] \notin KnownNames)
           /\ raised => ret = <<>>

\* a session whose second name is unknown raised
C8_Witness ==
    /\ pc = "returned"
    /\ call.op = "conv_session"
    /\ call.emotions = <<"Stressed", "Angry">>
    /\ raised

\* a data point without its timestamp
Untimed(p) ==
    [hr |-> p.hr, rr_intervals_ms |-> p.rr_intervals_ms,
     emotion |-> p.emotion, scenario |-> p.scenario]

\* C4 as stated: two runs that construct a generator with the same seed
\* and make the same calls with the same arguments return identical
\* sequences, timestamps included.
C4_IdenticalOutputs ==
    (pc = "returned" /\ call.op \in {"scenario", "session", "transition"})
        => ret = retB

\* C4 amended: the two runs return sequences of the same length with
\* identical hr, rr_intervals_ms, emotion and scenario, and with identical
\* timestamps when the call was given an explicit start_time.
C4_IdenticalUpToClock ==
    (pc = "returned" /\ call.op \in {"scenario", "session", "transition"})
        => /\ Len(ret) = Len(retB)
           /\ \A i \in 1 .. Len(ret) : Untimed(ret[i]) = Untimed(retB[i])
           /\ call.start_time # None => ret = retB

\* the two runs, at different times of day, returned the same three or
\* more points of a session started at an explicit instant
C4_Witness ==
    /\ pc = "returned"
    /\ call.op = "session"
    /\ call.start_time # None
    /\ now # nowB
    /\ Len(ret) >= 3
    /\ ret = retB

\* C5: the values g returns are the same whether or not another
\* BiosignalGenerator is constructed or used between g's calls.
C5_InstancesIndependent ==
    (pc = "returned" /\ call.op \in {"hr_sample", "scenario"})
        => retB = ret

\* C6: of two parallel convenience calls generate_scenario(e, d1) and
\* generate_scenario(e, d2), each returns as many points as the duration
\* it was given.
C6_OwnDuration ==
    \A t \in Threads :
        tpc[t] = "done" =>
            Len(tloc[t].data_points) = targ[t].duration_seconds

\* C11: every data point returned by generate_scenario, generate_session
\* and generate_transition carries between 8 and 15 RR intervals; the list
\* is never empty.
C11_RrCount ==
    \A p \in RenderedPoints :
        /\ Len(p.rr_intervals_ms) >= 8
        /\ Len(p.rr_intervals_ms) <= 15
        /\ p.rr_intervals_ms # <<>>

\* one returned sequence holds a point with 8 intervals and a point with 15
C11_Witness ==
    /\ \E p \in RenderedPoints : Len(p.rr_intervals_ms) = 8
    /\ \E p \in RenderedPoints : Len(p.rr_intervals_ms) = 15

\* timestamps never decrease along seq
Monotone(seq) ==
    \A i \in 1 .. (Len(seq) - 1) : seq[i].timestamp <= seq[i + 1].timestamp

PositiveRate(scenario) == RLt(R(0), scenario.samples_per_second)

\* C12: in every sequence returned by generate_scenario,
\* generate_transition, generate_session and the convenience
\* generate_session (with or without transitions), for descriptors with
\* samples_per_second > 0, timestamps never decrease, scenario and
\* transition boundaries included.
C12_MonotoneTimestamps ==
    pc = "returned" =>
        /\ (call.op = "scenario" /\ PositiveRate(call.scenario))
               => Monotone(ret)
        /\ (call.op = "session"
                /\ \A k \in 1 .. Len(call.scenarios) :
                       PositiveRate(call.scenarios[k]))
               => Monotone(ret)
        /\ call.op = "transition" => Monotone(ret)
        /\ call.op = "conv_session" => Monotone(ret)

\* a convenience session of two emotions with a transition between them
\* came back with its timestamps increasing across both boundaries
C12_Witness ==
    /\ pc = "returned"
    /\ call.op = "conv_session"
    /\ call.include_transitions
    /\ Len(call.emotions) = 2
    /\ call.duration_per_emotion = MaxDur
    /\ Len(ret) = 2 * MaxDur + 15
    /\ ret[MaxDur].timestamp < ret[MaxDur + 1].timestamp
    /\ ret[MaxDur + 15].timestamp < ret[MaxDur + 16].timestamp

\* the number of points a descriptor renders: floor(duration * rate), or
\* none when that is not positive
Expected(scenario) ==
    LET n == Floor(RMul(R(scenario.duration_seconds),
                        scenario.samples_per_second))
    IN  IF n > 0 THEN n ELSE 0

\* the number of points rendered for the descriptors before the k-th
RECURSIVE Offset(_, _)
Offset(scenarios, k) ==
    IF k <= 1 THEN 0
    ELSE Offset(scenarios, k - 1) + Expected(scenarios[k - 1])

\* C13: in BiosignalGenerator.generate_session, when descriptor k renders
\* at least one point, the last at time t, the first point rendered for
\* descriptor k+1 has timestamp exactly t + 1 second.
C13_SessionChaining ==
    (pc = "returned" /\ call.op = "session") =>
        \A k \in 1 .. (Len(call.scenarios) - 1) :
            LET last == Offset(call.scenarios, k)
                            + Expected(call.scenarios[k])
            IN  (Expected(call.scenarios[k]) > 0
                     /\ Expected(call.scenarios[k + 1]) > 0)
                    => ret[last + 1].timestamp = ret[last].timestamp + USEC

\* Fast then Third from an explicit start: Fast ends half a second after
\* it and Third begins one second later
C13_Witness ==
    /\ pc = "returned"
    /\ call.op = "session"
    /\ call.scenarios = <<Fast, Third>>
    /\ call.start_time = Some(ExplicitStart)
    /\ Len(ret) = 5
    /\ ret[2].timestamp = ExplicitStart + 500000
    /\ ret[3].timestamp = ExplicitStart + 1500000

AllKnown(emotions) ==
    \A k \in 1 .. Len(emotions) : emotions[k] \in KnownNames

\* C14: the convenience generate_session(emotions, d) without transitions,
\* for valid names and d >= 0, returns len(emotions) * d points in
\* consecutive blocks of d points in the order of emotions; every point of
\* block k carries the emotion emotions[k] and the name of that predefined
\* descriptor.
C14_SessionBlocks ==
    (/\ pc = "returned"
     /\ call.op = "conv_session"
     /\ ~call.include_transitions
     /\ AllKnown(call.emotions)
     /\ call.duration_per_emotion >= 0) =>
        LET d == call.duration_per_emotion
        IN  /\ ~raised
            /\ Len(ret) = Len(call.emotions) * d
            /\ \A k \in 1 .. Len(call.emotions) :
                   \A j \in 1 .. d :
                       /\ ret[(k - 1) * d + j].emotion = call.emotions[k]
                       /\ ret[(k - 1) * d + j].scenario
                              = PredefInit[call.emotions[k]].name

\* Calm then Stressed without transitions: the Calm block is followed
\* directly by the Stressed block
C14_Witness ==
    /\ pc = "returned"
    /\ call.op = "conv_session"
    /\ ~call.include_transitions
    /\ call.emotions = <<"Calm", "Stressed">>
    /\ call.duration_per_emotion = MaxDur
    /\ Len(ret) = 2 * MaxDur
    /\ ret[MaxDur].scenario = "Calm - Resting"
    /\ ret[MaxDur + 1].scenario = "Stressed - Working"

\* the hr and the RR intervals of the point a render of `scenario` draws
\* from the random state st
SampleOf(st, scenario) ==
    LET p == ScenarioStep(st, scenario, 0, 0).val
    IN  [hr |-> p.hr, rr_intervals_ms |-> p.rr_intervals_ms]

\* the hr and the RR intervals of a returned point
SampleIn(p) == [hr |-> p.hr, rr_intervals_ms |-> p.rr_intervals_ms]

RECURSIVE AfterIterations(_, _)
AfterIterations(a, n) ==
    IF n <= 0 THEN a
    ELSE CHOOSE r \in {AfterIterations(b, n - 1) : b \in {TransitionIter(a)}} : TRUE

\* the state of the random module when the last point of the transition
\* held by the caller was drawn
RngBeforeLast ==
    AfterIterations([rng |-> call.rng,
                     from_scenario |-> call.from_scenario,
                     to_scenario |-> call.to_scenario,
                     start |-> 0, i |-> 0,
                     total_samples |-> call.transition_seconds,
                     data_points |-> <<>>],
                    call.transition_seconds - 1).rng

FactorAt(i, N) == IF N > 1 THEN <<i, N - 1>> ELSE R(1)

\* C17: every point of generate_transition(from, to, N) has the emotion
\* label "{from.emotion}->{to.emotion}" and the scenario label
\* "Transition (P%)" with P = f * 100 rounded to the nearest integer, f
\* being the point's interpolation factor.
C17_LabelsRounded ==
    (pc = "returned" /\ call.op = "transition") =>
        \A i \in 0 .. (Len(ret) - 1) :
            /\ ret[i + 1].emotion
                   = call.from_scenario.emotion \o "->"
                         \o call.to_scenario.emotion
            /\ ret[i + 1].scenario
                   = "Transition ("
                         \o ToString(RoundHalfEven(
                                RMul(FactorAt(i, call.transition_seconds),
                                     R(100))))
                         \o "%)"

\* C18: the convenience generate_session with include_transitions, for n
\* valid emotions and d >= 0, returns S1, T(1,2), S2, ..., Sn: one
\* 15-point transition between each consecutive pair, labelled with the
\* pair's emotions in order, none before the first or after the last
\* scenario; n*d + 15*(n-1) points for n >= 1 and none for n = 0.
C18_SessionWithTransitions ==
    (/\ pc = "returned"
     /\ call.op = "conv_session"
     /\ call.include_transitions
     /\ AllKnown(call.emotions)
     /\ call.duration_per_emotion >= 0) =>
        LET d == call.duration_per_emotion
            n == Len(call.emotions)
        IN  /\ ~raised
            /\ Len(ret) = IF n = 0 THEN 0 ELSE n * d + 15 * (n - 1)
            /\ \A k \in 1 .. n :
                   \A j \in 1 .. d :
                       /\ ret[(k - 1) * (d + 15) + j].emotion
                              = call.emotions[k]
                       /\ ret[(k - 1) * (d + 15) + j].scenario
                              = PredefInit[call.emotions[k]].name
            /\ \A k \in 1 .. (n - 1) :
                   \A j \in 1 .. 15 :
                       /\ ret[(k - 1) * (d + 15) + d + j].emotion
                              = call.emotions[k] \o "->"
                                    \o call.emotions[k + 1]
                       /\ ret[(k - 1) * (d + 15) + d + j].scenario
                              = TransitionName(FactorAt(j - 1, 15))

\* three emotions: the Calm block is followed by the transition to
\* Stressed, the Stressed block by the transition to Amused, and the
\* Amused block ends the session
C18_Witness ==
    /\ pc = "returned"
    /\ call.op = "conv_session"
    /\ call.include_transitions
    /\ call.emotions = <<"Calm", "Stressed", "Amused">>
    /\ call.duration_per_emotion = MaxDur
    /\ Len(ret) = 3 * MaxDur + 30
    /\ ret[MaxDur + 1].emotion = "Calm->Stressed"
    /\ ret[2 * MaxDur + 16].emotion = "Stressed->Amused"
    /\ ret[3 * MaxDur + 30].emotion = "Amused"

\* C19: in the convenience generate_session with include_transitions the
\* renders are chained by a step of one second: each transition's first
\* timestamp is the preceding scenario's last timestamp + 1 s (when that
\* scenario is not empty) and the following scenario's first timestamp is
\* the transition's last timestamp + 1 s.
C19_TransitionChaining ==
    (/\ pc = "returned"
     /\ call.op = "conv_session"
     /\ call.include_transitions
     /\ AllKnown(call.emotions)
     /\ call.duration_per_emotion > 0) =>
        LET d == call.duration_per_emotion
        IN  /\ Len(ret) >= Len(call.emotions) * (d + 15) - 15
            /\ \A k \in 1 .. (Len(call.emotions) - 1) :
                   LET b == (k - 1) * (d + 15)
                   IN  /\ ret[b + d + 1].timestamp
                              = ret[b + d].timestamp + USEC
                       /\ ret[b + d + 16].timestamp
                              = ret[b + d + 15].timestamp + USEC

\* three emotions from an explicit start: the first transition begins one
\* second after the last Calm point and Stressed begins one second after
\* the transition's fifteenth point
C19_Witness ==
    /\ pc = "returned"
    /\ call.op = "conv_session"
    /\ call.include_transitions
    /\ call.emotions = <<"Calm", "Stressed", "Amused">>
    /\ call.duration_per_emotion = MaxDur
    /\ call.start_time = Some(ExplicitStart)
    /\ Len(ret) = 3 * MaxDur + 30
    /\ ret[MaxDur].timestamp = ExplicitStart + (MaxDur - 1) * USEC
    /\ ret[MaxDur + 1].timestamp = ExplicitStart + MaxDur * USEC
    /\ ret[MaxDur + 15].timestamp = ExplicitStart + (MaxDur + 14) * USEC
    /\ ret[MaxDur + 16].timestamp = ExplicitStart + (MaxDur + 15) * USEC

\* exactly one of --emotion and --session was given on the command line
ExactlyOneMode == (call.emotion # None) # (call.session # None)

\* C20: the command-line interface reaches data generation and export only
\* when exactly one of --emotion and --session is given; when neither or
\* both are given the run stops in the argument error, with no data
\* generated, no predefined scenario touched, and no file exported
C20_ExactlyOneMode ==
    call.op = "cli" =>
        /\ pc \in {"validated", "generated", "exported", "failed"}
               => ExactlyOneMode
        /\ ~ExactlyOneMode =>
               /\ pc \in {"parsed", "usage_error"}
               /\ ret = <<>>
               /\ ~raised
               /\ predef = PredefInit

\* both modes were given, with a name argparse accepts, and the run has
\* stopped in the argument error
C20_Witness ==
    /\ call.op = "cli"
    /\ pc = "usage_error"
    /\ call.emotion # None
    /\ call.emotion[1] \in EmotionNames
    /\ call.session # None

\* the loop variables of generate_rr_intervals after n iterations
RECURSIVE WalkAfter(_, _)
WalkAfter(a, n) ==
    IF n <= 0 THEN a
    ELSE CHOOSE r \in {WalkAfter(b, n - 1) : b \in {RRIter(a)}} : TRUE

\* the loop variables of the walk held by the caller before iteration k
\* (counted from 1)
WalkBefore(k) ==
    WalkAfter([rng |-> call.rng, mean |-> call.mean, std |-> call.std,
               prev_interval |-> call.mean, left |-> call.count,
               intervals |-> <<>>], k - 1)

\* the reference of iteration k: the mean at first, then the stored value
\* of the iteration before
WalkReference(k) == IF k = 1 THEN call.mean ELSE ret[k - 1]

\* iteration k of the walk, run from the loop variables w
WalkStepFrom(w) == RRStep(w.rng, w.mean, w.std, w.prev_interval)

\* the candidate s of one iteration against its reference: never more
\* than 100 away, the draw itself when that was within 100, and otherwise
\* a replacement
WalkStepOk(s, reference) ==
    /\ RLe(RAbs(RSub(s.target, reference)), R(100))
    /\ s.far = RLt(R(100), RAbs(RSub(s.drawn, reference)))
    /\ ~s.far => s.target = s.drawn

\* C21: at every step of the walk of generate_rr_intervals the value just
\* before clamping is at most 100 ms from the reference (the mean at the
\* first step, the stored clamped value of the step before afterwards); a
\* draw within 100 of the reference is kept, a draw further away is
\* replaced by a value within 100 of the reference; and the stored value
\* is that candidate clamped.
C21_CandidateNearReference ==
    (pc = "returned" /\ call.op = "rr_intervals") =>
        \A k \in 1 .. Len(ret) :
            /\ WalkBefore(k).prev_interval = WalkReference(k)
            /\ WalkStepOk(WalkStepFrom(WalkBefore(k)), WalkReference(k))
            /\ ret[k] = RMax(R(300), RMin(R(2000),
                                          WalkStepFrom(WalkBefore(k)).target))

\* a walk whose second step drew more than 100 away from a first value
\* that was itself a replacement different from the mean
C21_Witness ==
    /\ pc = "returned"
    /\ call.op = "rr_intervals"
    /\ Len(ret) >= 2
    /\ ret[1] # call.mean
    /\ WalkStepFrom(WalkBefore(1)).far
    /\ WalkStepFrom(WalkBefore(2)).far
    /\ WalkStepFrom(WalkBefore(2)).target # WalkStepFrom(WalkBefore(2)).drawn

\* the state of the random module when the point at index i (from 0) of
\* the transition held by the caller was drawn
RngAtIndex(i) ==
    AfterIterations([rng |-> call.rng,
                     from_scenario |-> call.from_scenario,
                     to_scenario |-> call.to_scenario,
                     start |-> 0, i |-> 0,
                     total_samples |-> call.transition_seconds,
                     data_points |-> <<>>], i).rng

\* from + f * (to - from)
Mix(from, to, f) == RAdd(from, RMul(f, RSub(to, from)))

\* a descriptor with the four parameters of `from` and `to` mixed at f
Mixed(from, to, f) ==
    EmotionScenario("mixed", "mixed",
                    Mix(from.hr_mean, to.hr_mean, f),
                    Mix(from.hr_std, to.hr_std, f),
                    Mix(from.rr_mean, to.rr_mean, f),
                    Mix(from.rr_std, to.rr_std, f), 1, R(1))

\* x lies between a and b, whichever of the two is larger
Within(a, x, b) == RLe(RMin(a, b), x) /\ RLe(x, RMax(a, b))

\* every parameter of m lies between those of from and to
MixedWithin(from, m, to) ==
    /\ Within(from.hr_mean, m.hr_mean, to.hr_mean)
    /\ Within(from.hr_std, m.hr_std, to.hr_std)
    /\ Within(from.rr_mean, m.rr_mean, to.rr_mean)
    /\ Within(from.rr_std, m.rr_std, to.rr_std)

StartOfCall ==
    IF call.start_time = None THEN call.clock ELSE call.start_time[1]

\* C23: in generate_transition the point at index i has the timestamp
\* start_time + i seconds, whatever the samples_per_second of the two
\* descriptors.
C23_TransitionTimestamps ==
    (pc = "returned" /\ call.op = "transition") =>
        \A i \in 0 .. (Len(ret) - 1) :
            ret[i + 1].timestamp = StartOfCall + i * USEC

\* a transition from Third (3 samples per second) to Slow (one sample
\* every 2 seconds) whose last point is MaxTrans - 1 seconds after the
\* start
C23_Witness ==
    /\ pc = "returned"
    /\ call.op = "transition"
    /\ call.from_scenario.samples_per_second = R(3)
    /\ call.to_scenario.samples_per_second = <<1, 2>>
    /\ call.start_time # None
    /\ Len(ret) = MaxTrans
    /\ ret[MaxTrans].timestamp = call.start_time[1] + (MaxTrans - 1) * USEC

\* the loop variables of generate_session after n iterations
RECURSIVE SessionAfter(_, _)
SessionAfter(a, n) ==
    IF n <= 0 THEN a
    ELSE CHOOSE r \in {SessionAfter(b, n - 1) : b \in {SessionIter(a)}} : TRUE

\* the start time the session held by the caller gave to its k-th
\* descriptor
StartGiven(k) ==
    SessionAfter([rng |-> call.rng, scenarios |-> call.scenarios, k |-> 1,
                  current_time |-> StartOfCall, all_data |-> <<>>],
                 k - 1).current_time

\* C24: in BiosignalGenerator.generate_session a descriptor that renders
\* no point leaves the running clock as it was: the next descriptor is
\* given the start time the empty one was given, and its first point, if
\* any, is stamped with it.
C24_EmptyKeepsClock ==
    (pc = "returned" /\ call.op = "session") =>
        \A k \in 1 .. (Len(call.scenarios) - 1) :
            Expected(call.scenarios[k]) = 0 =>
                /\ StartGiven(k + 1) = StartGiven(k)
                /\ Expected(call.scenarios[k + 1]) > 0 =>
                       ret[Offset(call.scenarios, k + 1) + 1].timestamp
                           = StartGiven(k)

\* Fast, Negative, Third from an explicit start: Fast ends half a second
\* after it, Negative renders nothing, and Third begins at the start
\* Negative was given, one second after Fast's last point
C24_Witness ==
    /\ pc = "returned"
    /\ call.op = "session"
    /\ call.scenarios = <<Fast, Negative, Third>>
    /\ call.start_time = Some(ExplicitStart)
    /\ Len(ret) = 5
    /\ StartGiven(2) = ExplicitStart + 1500000
    /\ ret[3].timestamp = StartGiven(2)

\* C25: a call of the convenience generate_session or generate_scenario
\* that fails with the unknown-name error has changed no state: every
\* predefined descriptor is as before the call, and the random stream has
\* been neither reseeded nor advanced.
C25_FailureChangesNothing ==
    [][(pc = "idle" /\ pc' = "returned" /\ raised')
           => (predef' = predef /\ rng' = rng)]_vars

\* C26: a session built by the convenience generate_session from the
\* predefined descriptors with a given start_time, with or without
\* transitions and for any duration, is stamped on a grid of one second
\* without gaps: the point at output index k (from 0) has the timestamp
\* start_time + k seconds, also across the boundaries of scenarios and
\* transitions.
C26_SecondGrid ==
    (/\ pc = "returned"
     /\ call.op = "conv_session"
     /\ ~raised
     /\ call.start_time # None) =>
        /\ \A k \in 0 .. (Len(ret) - 1) :
               ret[k + 1].timestamp = call.start_time[1] + k * USEC
        /\ \A k \in 1 .. (Len(ret) - 1) :
               ret[k + 1].timestamp - ret[k].timestamp = USEC

\* three emotions of duration 0 with transitions: the two transitions
\* follow each other, the second beginning 15 seconds after the start
C26_Witness ==
    /\ pc = "returned"
    /\ call.op = "conv_session"
    /\ call.include_transitions
    /\ call.emotions = <<"Calm", "Stressed", "Amused">>
    /\ call.duration_per_emotion = 0
    /\ call.start_time = Some(ExplicitStart)
    /\ Len(ret) = 30
    /\ ret[15].emotion = "Calm->Stressed"
    /\ ret[16].emotion = "Stressed->Amused"
    /\ ret[16].timestamp = ExplicitStart + 15 * USEC

\* C27: constructing BiosignalGenerator with an integer seed, 0 included,
\* leaves the random stream in the state that seed determines, whatever it
\* was before; constructing it with seed None leaves the random stream
\* exactly as it was.
C27_SeedResetsStream ==
    (pc = "returned" /\ call.op = "__init__") =>
        /\ call.seed # None => rng = RngSeed(call.seed[1])
        /\ call.seed = None => rng = call.rng

\* a generator constructed with seed 0 while the random stream was in
\* another state than the one seed 0 gives
C27_Witness ==
    /\ pc = "returned"
    /\ call.op = "__init__"
    /\ call.seed = Some(0)
    /\ call.rng # RngSeed(0)
    /\ rng = RngSeed(0)

\* a value clamped to the valid range of RR intervals
ClampRr(x) == RMax(R(300), RMin(R(2000), x))

\* C28: with std = 0, generate_rr_intervals(mean, 0, count) returns count
\* values that are all equal to mean clamped to [300, 2000], for every
\* mean, also outside [300, 2000].
C28_ConstantWalk ==
    (pc = "returned" /\ call.op = "rr_intervals" /\ call.std = R(0)) =>
        /\ Len(ret) = IF call.count > 0 THEN call.count ELSE 0
        /\ \A i \in 1 .. Len(ret) : ret[i] = ClampRr(call.mean)

\* C28 amended: with std = 0 the walk returns count values (none for
\* count <= 0); the first is mean clamped to [300, 2000]; all of them are
\* when mean is at most 100 outside the range (200 <= mean <= 2100); for a
\* mean further out every later draw is more than 100 from the stored
\* value and is replaced, so each later value is within 100 of the one
\* before it and inside the range.
C28_ConstantNearRange ==
    (pc = "returned" /\ call.op = "rr_intervals" /\ call.std = R(0)) =>
        /\ Len(ret) = IF call.count > 0 THEN call.count ELSE 0
        /\ Len(ret) >= 1 => ret[1] = ClampRr(call.mean)
        /\ RLe(RAbs(RSub(call.mean, ClampRr(call.mean))), R(100)) =>
               \A i \in 1 .. Len(ret) : ret[i] = ClampRr(call.mean)
        /\ \A i \in 2 .. Len(ret) :
               /\ RLe(RAbs(RSub(ret[i], ret[i - 1])), R(100))
               /\ ret[i] = ClampRr(ret[i])
               /\ RLt(R(100), RAbs(RSub(call.mean, ClampRr(call.mean))))
                      => WalkStepFrom(WalkBefore(i)).far

\* a walk with mean 150 and std 0 that began at 300 and later left it
C28_Witness ==
    /\ pc = "returned"
    /\ call.op = "rr_intervals"
    /\ call.std = R(0)
    /\ call.mean = R(150)
    /\ Len(ret) >= 2
    /\ ret[1] = R(300)
    /\ \E i \in 2 .. Len(ret) : RLt(R(300), ret[i])

\* the demo has stopped: both running flags are false and main has
\* returned
Stopped == ~demo.running /\ ~demo.stream_running /\ stack = <<>>

\* C29: once SIGINT or SIGTERM has been delivered to a StreamingDemo, at
\* any moment after its construction, the demo eventually stops: running
\* is false, the stream's running flag is false and the run loop has
\* exited, and running is never set to true again.
C29_InterruptStops == (sent > 0) ~> [](Stopped)

\* C30: in any run, whenever the interrupt signals are delivered, also
\* while stop is executing from the finally block of run, the body of stop
\* runs and the final statistics are printed at most once.
C30_StopOnce == stats <= 1

====
